---- MODULE Spec2Model ----
(***************************************************************************)
(* SignLens gesture core: hand role assignment, single- and two-hand       *)
(* classification and the majority-vote stability filter of                *)
(* frontend/src/gesture-detection.js, together with the modular pipeline   *)
(* of frontend/src/gestures and frontend/src/handDetector.js.              *)
(*                                                                         *)
(* Coordinates are normalized camera coordinates in hundredths: the        *)
(* JavaScript value 0.05 is the integer 5 here.  JavaScript arrays are     *)
(* 0-indexed; At(a, i) reads a[i] of the 1-indexed sequence a.             *)
(***************************************************************************)
EXTENDS Integers, Sequences, FiniteSets, TLC

VARIABLES
    handTracker,  \* the module-level tracker object of gesture-detection.js
    results,      \* the frame (hand-tracking results) of the last call
    op,           \* the operation that ran last
    thrown,       \* the exception the last call ended with, or "none"
    out,          \* the value the last call returned (null when it threw)
    calls,        \* history: filter calls since the last reset, capped
    recent,       \* history: the last raw labels passed to the filter since the last reset
    outs,         \* history: the filter's outputs for the first calls since the last reset
    wasReset,     \* history: whether resetHandTracker has been called
    stream,       \* the capture stream that delivered the last frame
    solo,         \* history: per stream, the stability state it would have alone
    soloOut,      \* history: per stream, the label it would have received alone
    modular,      \* what the modular pipeline (handDetector + gestures/) made of the frame
    oneHand       \* per hand of the frame, what the gestures/ sign matchers returned

vars == <<handTracker, results, op, thrown, out, calls, recent, outs, wasReset,
          stream, solo, soloOut, modular, oneHand>>

----------------------------------------------------------------------------
(* Values *)

\* JavaScript null (and undefined) where a label or a return value is expected
null == "null"

\* JavaScript null in a hand slot; input landmark arrays are never empty
NoHand == << >>

Truthy(v) == v # null

IsHand(h) == h # NoHand

Abs(a) == IF a < 0 THEN 0 - a ELSE a

\* a[i] of a JavaScript array (defined for 0 <= i < a.length)
At(a, i) == a[i + 1]

Defined(a, i) == i >= 0 /\ i < Len(a)

----------------------------------------------------------------------------
(* Configuration *)

STABILITY_FRAMES == 5

\* faulty variant: every frame of the window must agree
ThresholdUnanimous == STABILITY_FRAMES

\* Math.ceil(STABILITY_FRAMES * 0.8); 5 * 0.8 is exactly 4 in double arithmetic
Threshold == (STABILITY_FRAMES * 8 + 9) \div 10

\* Math.abs(thumbTip.x - thumbBase.x) > 0.05
ThumbOpenDistance == 5

\* the number of landmarks of a well-formed hand
LandmarkCount == 21

----------------------------------------------------------------------------
(* Bounds of the model *)

\* frames accepted between two resets (handTracker.frameCount is unbounded in the code)
MaxFrames == 9

----------------------------------------------------------------------------
(* Input hands.  The hand-tracking provider delivers, per hand, an array   *)
(* of landmarks {x, y}.  The model builds the arrays from a wrist position *)
(* and a pose; every landmark the code reads gets its own coordinates.     *)

Point(px, py) == [x |-> px, y |-> py]

\* pose: thumbDx = tip.x - base.x of the thumb, thumbDy = tip.y - ip.y of the
\* thumb, and for each other finger whether its tip is above its PIP joint
Pose(dx, dy, i, m, r, p) ==
    [thumbDx |-> dx, thumbDy |-> dy, index |-> i, middle |-> m, ring |-> r, pinky |-> p]

TipY(wy, open) == IF open THEN wy - 40 ELSE wy - 20

MkLandmarks(n, wx, wy, pose) ==
    [k \in 1..n |->
        CASE k - 1 = 0  -> Point(wx, wy)
          [] k - 1 = 2  -> Point(wx, wy - 10)
          [] k - 1 = 3  -> Point(wx, wy - 15)
          [] k - 1 = 4  -> Point(wx + pose.thumbDx, wy - 15 + pose.thumbDy)
          [] k - 1 = 8  -> Point(wx, TipY(wy, pose.index))
          [] k - 1 = 12 -> Point(wx, TipY(wy, pose.middle))
          [] k - 1 = 16 -> Point(wx, TipY(wy, pose.ring))
          [] k - 1 = 20 -> Point(wx, TipY(wy, pose.pinky))
          [] k - 1 \in {6, 10, 14, 18} -> Point(wx, wy - 30)
          [] OTHER -> Point(wx, wy)]

OpenPalmPose   == Pose(10, -10, TRUE, TRUE, TRUE, TRUE)
FistPose       == Pose(0, 0, FALSE, FALSE, FALSE, FALSE)
ThumbsUpPose   == Pose(10, -10, FALSE, FALSE, FALSE, FALSE)
ThumbsDownPose == Pose(-10, 10, FALSE, FALSE, FALSE, FALSE)
ThumbFlatPose  == Pose(10, 0, FALSE, FALSE, FALSE, FALSE)
PointingPose   == Pose(0, 0, TRUE, FALSE, FALSE, FALSE)
TwoPose        == Pose(0, 0, TRUE, TRUE, FALSE, FALSE)
FourPose       == Pose(10, 0, TRUE, TRUE, TRUE, FALSE)

\* results of the hand-tracking provider: parallel arrays of landmark arrays
\* and of handedness records
Results(hands, labels) ==
    [multiHandLandmarks |-> hands,
     multiHandedness    |-> [k \in 1..Len(labels) |-> [label |-> labels[k]]]]

NoResults == Results(<< >>, << >>)

HandednessLabels == {"Left", "Right"}

----------------------------------------------------------------------------
(* gesture-detection.js: hand role assignment *)

Roles(l, r) == [leftHand |-> l, rightHand |-> r]

\* the role a single hand gets from its reported handedness label
RoleOfLabel(handLabel) == IF handLabel = "Right" THEN "leftHand" ELSE "rightHand"

\* faulty variant: two hands keep their input order
assignHandRolesByOrder(res) ==
    IF Len(res.multiHandLandmarks) = 0
    THEN Roles(NoHand, NoHand)
    ELSE IF Len(res.multiHandLandmarks) = 1
    THEN IF RoleOfLabel(At(res.multiHandedness, 0).label) = "leftHand"
         THEN Roles(At(res.multiHandLandmarks, 0), NoHand)
         ELSE Roles(NoHand, At(res.multiHandLandmarks, 0))
    ELSE Roles(At(res.multiHandLandmarks, 0), At(res.multiHandLandmarks, 1))

assignHandRoles(res) ==
    IF Len(res.multiHandLandmarks) = 0
    THEN Roles(NoHand, NoHand)
    ELSE IF Len(res.multiHandLandmarks) = 1
    THEN LET hand      == At(res.multiHandLandmarks, 0)
             handLabel == At(res.multiHandedness, 0).label
         IN  IF RoleOfLabel(handLabel) = "leftHand"
             THEN Roles(hand, NoHand)
             ELSE Roles(NoHand, hand)
    ELSE LET hand1 == At(res.multiHandLandmarks, 0)
             hand2 == At(res.multiHandLandmarks, 1)
             x1    == At(hand1, 0).x
             x2    == At(hand2, 0).x
         IN  IF x1 < x2 THEN Roles(hand1, hand2) ELSE Roles(hand2, hand1)

----------------------------------------------------------------------------
(* gesture-detection.js: single-hand classification *)

\* the landmark indices getFingerStates reads; reading .x or .y of a missing
\* landmark (undefined) throws a TypeError
FingerIndices == {2, 4, 6, 8, 10, 12, 14, 16, 18, 20}

getFingerStatesThrows(landmarks) == \E k \in FingerIndices : ~Defined(landmarks, k)

\* [thumb, index, middle, ring, pinky]
getFingerStates(landmarks) ==
    << Abs(At(landmarks, 4).x - At(landmarks, 2).x) > ThumbOpenDistance,
       At(landmarks, 8).y  < At(landmarks, 6).y,
       At(landmarks, 12).y < At(landmarks, 10).y,
       At(landmarks, 16).y < At(landmarks, 14).y,
       At(landmarks, 20).y < At(landmarks, 18).y >>

\* fingers.filter(f => f).length
OpenCount(fingers) == Cardinality({k \in 1..Len(fingers) : fingers[k]})

isOpenPalm(fingers) == OpenCount(fingers) = 5

isFist(fingers) == OpenCount(fingers) = 0

isThumbsUp(fingers, landmarks) ==
    /\ fingers[1] /\ ~fingers[2] /\ ~fingers[3] /\ ~fingers[4] /\ ~fingers[5]
    /\ At(landmarks, 4).y < At(landmarks, 8).y

isThumbsDown(fingers, landmarks) ==
    /\ fingers[1] /\ ~fingers[2] /\ ~fingers[3] /\ ~fingers[4] /\ ~fingers[5]
    /\ At(landmarks, 4).y > At(landmarks, 8).y

isPointingUp(fingers, landmarks) ==
    /\ ~fingers[1] /\ fingers[2] /\ ~fingers[3] /\ ~fingers[4] /\ ~fingers[5]
    /\ At(landmarks, 8).y < At(landmarks, 6).y

NumberLabel(k) ==
    CASE k = 0 -> "NUMBER_0" [] k = 1 -> "NUMBER_1" [] k = 2 -> "NUMBER_2"
      [] k = 3 -> "NUMBER_3" [] k = 4 -> "NUMBER_4" [] k = 5 -> "NUMBER_5"

detectSingleHandGesture(landmarks) ==
    IF ~IsHand(landmarks) THEN null
    ELSE LET fingers == getFingerStates(landmarks)
         IN  IF isOpenPalm(fingers) THEN "OPEN_PALM"
             ELSE IF isFist(fingers) THEN "FIST"
             ELSE IF isThumbsUp(fingers, landmarks) THEN "THUMBS_UP"
             ELSE IF isThumbsDown(fingers, landmarks) THEN "THUMBS_DOWN"
             ELSE IF isPointingUp(fingers, landmarks) THEN "POINTING_UP"
             ELSE IF OpenCount(fingers) >= 0 /\ OpenCount(fingers) <= 5
             THEN NumberLabel(OpenCount(fingers))
             ELSE null

----------------------------------------------------------------------------
(* gesture-detection.js: two-hand classification *)

\* the square of getHandDistance, in ten-thousandths
HandDistanceSq(leftLandmarks, rightLandmarks) ==
    LET dx == At(leftLandmarks, 0).x - At(rightLandmarks, 0).x
        dy == At(leftLandmarks, 0).y - At(rightLandmarks, 0).y
    IN  dx * dx + dy * dy

\* getHandDistance(...) < 0.2, compared on the squares
HandsWithinSorryDistance(leftLandmarks, rightLandmarks) ==
    HandDistanceSq(leftLandmarks, rightLandmarks) < 20 * 20

detectTwoHandGesture(leftLandmarks, rightLandmarks) ==
    IF ~IsHand(leftLandmarks) \/ ~IsHand(rightLandmarks) THEN null
    ELSE LET leftGesture  == detectSingleHandGesture(leftLandmarks)
             rightGesture == detectSingleHandGesture(rightLandmarks)
         IN  IF leftGesture = "OPEN_PALM" /\ rightGesture = "OPEN_PALM" THEN "HELLO"
             ELSE IF leftGesture = "FIST" /\ rightGesture = "FIST" THEN "THANK_YOU"
             ELSE IF leftGesture = "THUMBS_UP" /\ rightGesture = "THUMBS_UP" THEN "EXCELLENT"
             ELSE IF leftGesture = "FIST" /\ rightGesture = "OPEN_PALM" THEN "PLEASE"
             ELSE IF /\ leftGesture = "OPEN_PALM" /\ rightGesture = "OPEN_PALM"
                     /\ HandsWithinSorryDistance(leftLandmarks, rightLandmarks)
             THEN "SORRY"
             ELSE null

\* the second definition of detectTwoHandGesture in gesture-detection.js
detectTwoHandGestureSecond(leftLandmarks, rightLandmarks) ==
    IF ~IsHand(leftLandmarks) \/ ~IsHand(rightLandmarks) THEN null
    ELSE LET leftGesture  == detectSingleHandGesture(leftLandmarks)
             rightGesture == detectSingleHandGesture(rightLandmarks)
         IN  IF /\ leftGesture = "OPEN_PALM" /\ rightGesture = "OPEN_PALM"
                /\ HandsWithinSorryDistance(leftLandmarks, rightLandmarks)
             THEN "SORRY"
             ELSE IF leftGesture = "THUMBS_UP" /\ rightGesture = "THUMBS_UP" THEN "EXCELLENT"
             ELSE IF leftGesture = "FIST" /\ rightGesture = "FIST" THEN "THANK_YOU"
             ELSE IF leftGesture = "FIST" /\ rightGesture = "OPEN_PALM" THEN "PLEASE"
             ELSE IF leftGesture = "POINTING_UP" /\ rightGesture = "POINTING_UP"
             THEN "TOGETHER"
             ELSE IF leftGesture = "OPEN_PALM" /\ rightGesture = "OPEN_PALM" THEN "HELLO"
             ELSE null

\* the exception, if any, that classifying the assigned hands ends with
DetectionThrows(leftHand, rightHand) ==
    \/ IsHand(leftHand)  /\ getFingerStatesThrows(leftHand)
    \/ IsHand(rightHand) /\ getFingerStatesThrows(rightHand)

----------------------------------------------------------------------------
(* gesture-detection.js: stability filter *)

\* the handTracker object literal of the declaration and of resetHandTracker
NewTracker ==
    [leftHand |-> NoHand, rightHand |-> NoHand, frameCount |-> 0,
     stabilityBuffer |-> << >>, lastGesture |-> null]

\* faulty variant: the oldest entry is never evicted
PushBufferUnbounded(buffer, currentGesture) == Append(buffer, currentGesture)

\* stabilityBuffer.push(currentGesture), then shift() beyond STABILITY_FRAMES
PushBuffer(buffer, currentGesture) ==
    LET pushed == Append(buffer, currentGesture)
    IN  IF Len(pushed) > STABILITY_FRAMES THEN Tail(pushed) ELSE pushed

\* gestureCounts[gesture]: occurrences of a label in the buffer
CountOf(buffer, gesture) == Cardinality({k \in 1..Len(buffer) : buffer[k] = gesture})

\* the keys of gestureCounts in insertion order: the truthy labels of the
\* buffer, each at its first occurrence
RECURSIVE CountKeys(_, _)
CountKeys(buffer, k) ==
    IF k > Len(buffer) THEN << >>
    ELSE IF Truthy(buffer[k]) /\ \A j \in 1..(k - 1) : buffer[j] # buffer[k]
         THEN <<buffer[k]>> \o CountKeys(buffer, k + 1)
         ELSE CountKeys(buffer, k + 1)

\* the for-in loop over gestureCounts: the first key with the largest count
RECURSIVE MostCommonFrom(_, _, _, _)
MostCommonFrom(buffer, keys, mostCommon, maxCount) ==
    IF keys = << >> THEN [mostCommon |-> mostCommon, maxCount |-> maxCount]
    ELSE IF CountOf(buffer, Head(keys)) > maxCount
         THEN MostCommonFrom(buffer, Tail(keys), Head(keys), CountOf(buffer, Head(keys)))
         ELSE MostCommonFrom(buffer, Tail(keys), mostCommon, maxCount)

MostCommon(buffer) == MostCommonFrom(buffer, CountKeys(buffer, 1), null, 0)

\* faulty variant: the vote is taken before the window is full
applyStabilityFilterEager(t, currentGesture) ==
    LET buffer == PushBuffer(t.stabilityBuffer, currentGesture)
        pushed == [t EXCEPT !.stabilityBuffer = buffer]
        best   == MostCommon(buffer)
    IN  IF best.maxCount >= Threshold
        THEN [tracker |-> [pushed EXCEPT !.lastGesture = best.mostCommon],
              ret |-> best.mostCommon]
        ELSE [tracker |-> pushed, ret |-> t.lastGesture]

\* faulty variant: without a majority the confirmed label is dropped
applyStabilityFilterNoHold(t, currentGesture) ==
    LET buffer == PushBuffer(t.stabilityBuffer, currentGesture)
        pushed == [t EXCEPT !.stabilityBuffer = buffer]
        best   == MostCommon(buffer)
    IN  IF Len(buffer) < STABILITY_FRAMES
        THEN [tracker |-> pushed, ret |-> t.lastGesture]
        ELSE IF best.maxCount >= Threshold
        THEN [tracker |-> [pushed EXCEPT !.lastGesture = best.mostCommon],
              ret |-> best.mostCommon]
        ELSE [tracker |-> [pushed EXCEPT !.lastGesture = null], ret |-> null]

\* faulty variant: a newly confirmed label is stored, the previous one returned
applyStabilityFilterStale(t, currentGesture) ==
    LET buffer == PushBuffer(t.stabilityBuffer, currentGesture)
        pushed == [t EXCEPT !.stabilityBuffer = buffer]
        best   == MostCommon(buffer)
    IN  IF Len(buffer) < STABILITY_FRAMES
        THEN [tracker |-> pushed, ret |-> t.lastGesture]
        ELSE IF best.maxCount >= Threshold
        THEN [tracker |-> [pushed EXCEPT !.lastGesture = best.mostCommon],
              ret |-> t.lastGesture]
        ELSE [tracker |-> pushed, ret |-> t.lastGesture]

\* applyStabilityFilter on tracker state t: the tracker afterwards and the
\* value returned
applyStabilityFilter(t, currentGesture) ==
    LET buffer == PushBuffer(t.stabilityBuffer, currentGesture)
        pushed == [t EXCEPT !.stabilityBuffer = buffer]
        best   == MostCommon(buffer)
    IN  IF Len(buffer) < STABILITY_FRAMES
        THEN [tracker |-> pushed, ret |-> t.lastGesture]
        ELSE IF best.maxCount >= Threshold
        THEN [tracker |-> [pushed EXCEPT !.lastGesture = best.mostCommon],
              ret |-> best.mostCommon]
        ELSE [tracker |-> pushed, ret |-> t.lastGesture]

----------------------------------------------------------------------------
(* gesture-detection.js: the per-frame pipeline *)

\* detectedGesture of processGestureDetection for the assigned hands
DetectedGesture(leftHand, rightHand) ==
    IF IsHand(leftHand) /\ IsHand(rightHand)
    THEN detectTwoHandGesture(leftHand, rightHand)
    ELSE IF IsHand(leftHand) \/ IsHand(rightHand)
    THEN detectSingleHandGesture(IF IsHand(leftHand) THEN leftHand ELSE rightHand)
    ELSE null

\* the tracker after the role assignment of processGestureDetection
TrackFrame(t, roles) ==
    [t EXCEPT !.leftHand = roles.leftHand, !.rightHand = roles.rightHand,
              !.frameCount = @ + 1]

\* history kept beside the program: the window of raw labels since the last
\* reset, and the outputs of the first STABILITY_FRAMES calls since then
Window(w, g) ==
    IF Len(w) < STABILITY_FRAMES THEN Append(w, g) ELSE Append(Tail(w), g)

Recorded(r) ==
    /\ calls'  = IF calls < STABILITY_FRAMES THEN calls + 1 ELSE STABILITY_FRAMES + 1
    /\ recent' = Window(recent, r.raw)
    /\ outs'   = IF calls < STABILITY_FRAMES THEN Append(outs, r.ret) ELSE << >>

\* one call of processGestureDetection(res) on tracker t: the tracker
\* afterwards, the exception or "none", the raw label and the value returned
ProcessFrame(t, res) ==
    LET roles   == assignHandRoles(res)
        tracked == TrackFrame(t, roles)
        raw     == DetectedGesture(roles.leftHand, roles.rightHand)
        stable  == applyStabilityFilter(tracked, raw)
    IN  IF DetectionThrows(roles.leftHand, roles.rightHand)
        THEN [tracker |-> tracked, thrown |-> "TypeError", raw |-> null, ret |-> null]
        ELSE [tracker |-> stable.tracker, thrown |-> "none", raw |-> raw,
              ret |-> stable.ret]

\* the call's effect on the tracker and on the history of the session
Process(res) ==
    /\ LET r == ProcessFrame(handTracker, res)
       IN  /\ handTracker' = r.tracker
           /\ thrown' = r.thrown
           /\ out' = r.ret
           /\ IF r.thrown = "none" THEN Recorded(r)
                                   ELSE UNCHANGED <<calls, recent, outs>>
    /\ results' = res
    /\ op' = "processGestureDetection"

processGestureDetection(res) ==
    /\ handTracker.frameCount < MaxFrames
    /\ Process(res)
    /\ UNCHANGED <<wasReset, stream, solo, soloOut, modular, oneHand>>

\* faulty variant: the reset keeps the stability buffer
ResetKeepsBuffer(t) == [NewTracker EXCEPT !.stabilityBuffer = t.stabilityBuffer]

\* faulty variant: the reset clears the stability state only
ResetKeepsFrame(t) == [t EXCEPT !.stabilityBuffer = << >>, !.lastGesture = null]

\* detectedGesture of the second definition of processGestureDetection
DetectedGestureSecond(leftHand, rightHand) ==
    IF IsHand(leftHand) /\ IsHand(rightHand)
    THEN detectTwoHandGestureSecond(leftHand, rightHand)
    ELSE DetectedGesture(leftHand, rightHand)

\* one call of the second definition of processGestureDetection
ProcessFrameSecond(t, res) ==
    LET roles   == assignHandRoles(res)
        tracked == TrackFrame(t, roles)
        raw     == DetectedGestureSecond(roles.leftHand, roles.rightHand)
        stable  == applyStabilityFilter(tracked, raw)
    IN  IF DetectionThrows(roles.leftHand, roles.rightHand)
        THEN [tracker |-> tracked, thrown |-> "TypeError", raw |-> null, ret |-> null]
        ELSE [tracker |-> stable.tracker, thrown |-> "none", raw |-> raw,
              ret |-> stable.ret]

processGestureDetectionSecond(res) ==
    /\ handTracker.frameCount < MaxFrames
    /\ LET r == ProcessFrameSecond(handTracker, res)
       IN  /\ handTracker' = r.tracker
           /\ thrown' = r.thrown
           /\ out' = r.ret
           /\ IF r.thrown = "none" THEN Recorded(r)
                                   ELSE UNCHANGED <<calls, recent, outs>>
    /\ results' = res
    /\ op' = "processGestureDetectionSecond"
    /\ UNCHANGED <<wasReset, stream, solo, soloOut, modular, oneHand>>

\* the tracker resetHandTracker assigns
ResetTracker(t) == NewTracker

resetHandTracker ==
    /\ handTracker' = ResetTracker(handTracker)
    /\ op' = "resetHandTracker"
    /\ thrown' = "none"
    /\ out' = null
    /\ calls' = 0
    /\ recent' = << >>
    /\ outs' = << >>
    /\ wasReset' = TRUE
    /\ UNCHANGED <<results, stream, solo, soloOut, modular, oneHand>>

----------------------------------------------------------------------------
(* The capture session: frames of one stream, and resets *)

Hand1(pose, wx) == MkLandmarks(LandmarkCount, wx, 60, pose)

\* the frames the provider delivers in the session model
Frames ==
    { NoResults,
      Results(<<Hand1(FistPose, 30)>>, <<"Right">>),
      Results(<<Hand1(OpenPalmPose, 70)>>, <<"Left">>),
      Results(<<Hand1(OpenPalmPose, 30), Hand1(OpenPalmPose, 70)>>, <<"Left", "Right">>),
      Results(<<MkLandmarks(LandmarkCount - 1, 30, 60, FistPose)>>, <<"Right">>),
      Results(<<MkLandmarks(LandmarkCount + 1, 30, 60, FistPose)>>, <<"Right">>) }

NoStreams == << >>

NoModular == [leftHand |-> NoHand, rightHand |-> NoHand, gesture |-> null]

Init ==
    /\ handTracker = NewTracker
    /\ results = NoResults
    /\ op = "init"
    /\ thrown = "none"
    /\ out = null
    /\ calls = 0
    /\ recent = << >>
    /\ outs = << >>
    /\ wasReset = FALSE
    /\ stream = 0
    /\ solo = NoStreams
    /\ soloOut = NoStreams
    /\ modular = NoModular
    /\ oneHand = << >>

Next ==
    \/ \E res \in Frames : processGestureDetection(res)
    \/ resetHandTracker

Spec == Init /\ [][Next]_vars

----------------------------------------------------------------------------
(* Properties of the stability filter, checked under Spec *)

\* the raw labels the frames of the session produce
RawLabels ==
    { ProcessFrame(NewTracker, res).raw : res \in Frames }

NamedLabels == RawLabels \ {null}

\* the sequence of n copies of v
Repeat(v, n) == [k \in 1..n |-> v]

\* a call of processGestureDetection that reached the stability filter
FilterCalled == op' = "processGestureDetection" /\ thrown' = "none"

\* some label other than L reaches the threshold in window w
OtherWins(w, L) ==
    \E g \in NamedLabels : g # L /\ CountOf(w, g) >= Threshold

\* some label reaches the threshold in window w
SomeWins(w) == \E g \in NamedLabels : CountOf(w, g) >= Threshold

\* C1 as stated: after the labels A,A,A,A,B from a fresh state the filter has
\* returned A on frame 4 and on frame 5.
C1_ConfirmedOnFrame4 ==
    \A A \in NamedLabels : \A B \in NamedLabels \ {A} :
        (calls = STABILITY_FRAMES /\ recent = Repeat(A, 4) \o <<B>>)
            => (outs[4] = A /\ outs[5] = A)

\* C1 amended: after the labels A,A,A,A,B from a fresh state the filter has
\* returned null on frames 1 to 4 and A on frame 5, and lastGesture is A.
C1_ConfirmedOnFrame5 ==
    \A A \in NamedLabels : \A B \in NamedLabels \ {A} :
        (calls = STABILITY_FRAMES /\ recent = Repeat(A, 4) \o <<B>>)
            => (outs = Repeat(null, 4) \o <<A>> /\ handTracker.lastGesture = A)

C1_Witness ==
    /\ calls = STABILITY_FRAMES
    /\ recent = <<"FIST", "FIST", "FIST", "FIST", "OPEN_PALM">>
    /\ outs[5] = "FIST"

\* C2: fed the same label A on every frame from a fresh state, the filter
\* returns null on frames 1 to 4 and A on frame 5.
C2_ConfirmedWhenWindowFills ==
    \A A \in NamedLabels :
        /\ (calls \in 1..(STABILITY_FRAMES - 1) /\ recent = Repeat(A, calls))
              => (outs = Repeat(null, calls) /\ handTracker.lastGesture = null)
        /\ (calls = STABILITY_FRAMES /\ recent = Repeat(A, STABILITY_FRAMES))
              => (outs = Repeat(null, STABILITY_FRAMES - 1) \o <<A>>
                  /\ handTracker.lastGesture = A)

C2_Witness ==
    /\ calls = STABILITY_FRAMES
    /\ recent = Repeat("HELLO", STABILITY_FRAMES)
    /\ outs[STABILITY_FRAMES] = "HELLO"

\* C3: sticky hold.  A filter call made while label L is confirmed returns L
\* and keeps L confirmed unless a label other than L occurs at least
\* Threshold times among the last STABILITY_FRAMES raw labels; and a call on
\* which no label reaches Threshold returns lastGesture and leaves it
\* unchanged.
C3_StickyHold ==
    [][ FilterCalled =>
          /\ (handTracker.lastGesture # null
                /\ ~OtherWins(recent', handTracker.lastGesture))
               => (out' = handTracker.lastGesture
                   /\ handTracker'.lastGesture = handTracker.lastGesture)
          /\ ~SomeWins(recent')
               => (out' = handTracker.lastGesture
                   /\ handTracker'.lastGesture = handTracker.lastGesture)
      ]_vars

\* a confirmed label is held although it no longer has the majority
C3_Witness ==
    /\ op = "processGestureDetection" /\ thrown = "none"
    /\ handTracker.lastGesture = "FIST" /\ out = "FIST"
    /\ CountOf(recent, "FIST") <= 2
    /\ CountOf(recent, null) >= 1

\* C4: for the first STABILITY_FRAMES - 1 filter calls after a reset the
\* output and lastGesture are null whatever the labels, and a label becomes
\* confirmed only by a call after which the window holds STABILITY_FRAMES
\* labels received since the reset, at least Threshold of them that label.
C4_EvidenceFromScratch ==
    /\ [](calls < STABILITY_FRAMES
             => /\ handTracker.lastGesture = null
                /\ out = null
                /\ outs = Repeat(null, calls))
    /\ [][ (handTracker'.lastGesture # null
              /\ handTracker'.lastGesture # handTracker.lastGesture)
             => /\ FilterCalled
                /\ calls' >= STABILITY_FRAMES
                /\ Len(recent') = STABILITY_FRAMES
                /\ CountOf(recent', handTracker'.lastGesture) >= Threshold
                /\ out' = handTracker'.lastGesture
         ]_vars

\* four identical labels after a reset of a tracker: still nothing confirmed
C4_Witness ==
    /\ wasReset
    /\ calls = STABILITY_FRAMES - 1
    /\ recent = Repeat("FIST", STABILITY_FRAMES - 1)
    /\ out = null

\* C5: the stability buffer never holds more than STABILITY_FRAMES entries;
\* it is the window of the raw labels (null included) passed to the filter
\* since the last reset: one entry per call, the oldest evicted beyond
\* STABILITY_FRAMES.
C5_BufferBounded ==
    /\ Len(handTracker.stabilityBuffer) <= STABILITY_FRAMES
    /\ handTracker.stabilityBuffer = recent
    /\ Len(handTracker.stabilityBuffer) =
          (IF calls < STABILITY_FRAMES THEN calls ELSE STABILITY_FRAMES)

\* the window is full, an entry has been evicted, and it holds a null
C5_Witness ==
    /\ calls = STABILITY_FRAMES + 1
    /\ Len(handTracker.stabilityBuffer) = STABILITY_FRAMES
    /\ CountOf(handTracker.stabilityBuffer, null) >= 1
    /\ handTracker.frameCount > STABILITY_FRAMES

\* C6 as stated: resetHandTracker empties the buffer and clears lastGesture
\* and leaves every other field of the tracker as it was.
C6_ResetOnlyStability ==
    [][ op' = "resetHandTracker" =>
          /\ handTracker'.stabilityBuffer = << >>
          /\ handTracker'.lastGesture = null
          /\ handTracker'.leftHand = handTracker.leftHand
          /\ handTracker'.rightHand = handTracker.rightHand
          /\ handTracker'.frameCount = handTracker.frameCount
      ]_vars

\* C6 amended: resetHandTracker is callable in every state, and after it the
\* whole tracker is as constructed: buffer empty, lastGesture null, both hand
\* slots null and frameCount zero.
C6_ResetWholeTracker ==
    /\ ENABLED resetHandTracker
    /\ op = "resetHandTracker"
         => /\ handTracker.stabilityBuffer = << >>
            /\ handTracker.lastGesture = null
            /\ handTracker.leftHand = NoHand
            /\ handTracker.rightHand = NoHand
            /\ handTracker.frameCount = 0

\* a reset of a tracker that had processed a two-hand frame
C6_Witness ==
    /\ op = "resetHandTracker"
    /\ Len(results.multiHandLandmarks) = 2
    /\ handTracker.frameCount = 0

\* a hand of the frame whose landmark count is not LandmarkCount
BadFrame(res) ==
    \E k \in 1..Len(res.multiHandLandmarks) :
        Len(res.multiHandLandmarks[k]) # LandmarkCount

\* C7 as stated: a frame with a hand whose landmark count is not 21 makes
\* processGestureDetection fail with an error, and the stability buffer and
\* lastGesture are what they were before the frame.
C7_MalformedHandRejected ==
    [][ (op' = "processGestureDetection" /\ BadFrame(results'))
          => /\ thrown' # "none"
             /\ handTracker'.stabilityBuffer = handTracker.stabilityBuffer
             /\ handTracker'.lastGesture = handTracker.lastGesture
      ]_vars

----------------------------------------------------------------------------
(* Two capture streams feeding the one module-level handTracker *)

Streams == {1, 2}

StreamFrames ==
    { NoResults, Results(<<Hand1(FistPose, 30)>>, <<"Right">>) }

\* frames accepted from the two streams together
MaxStreamFrames == 6

InitStreams ==
    /\ handTracker = NewTracker
    /\ results = NoResults
    /\ op = "init"
    /\ thrown = "none"
    /\ out = null
    /\ calls = 0
    /\ recent = << >>
    /\ outs = << >>
    /\ wasReset = FALSE
    /\ stream = 0
    /\ solo = [s \in Streams |-> NewTracker]
    /\ soloOut = [s \in Streams |-> null]
    /\ modular = NoModular
    /\ oneHand = << >>

\* stream s delivers a frame: processGestureDetection runs on the module's
\* handTracker; solo[s] is the tracker s would have with a tracker of its own
streamFrame(s, res) ==
    /\ handTracker.frameCount < MaxStreamFrames
    /\ Process(res)
    /\ stream' = s
    /\ solo' = [solo EXCEPT ![s] = ProcessFrame(solo[s], res).tracker]
    /\ soloOut' = [soloOut EXCEPT ![s] = ProcessFrame(solo[s], res).ret]
    /\ UNCHANGED <<wasReset, modular, oneHand>>

NextStreams == \E s \in Streams : \E res \in StreamFrames : streamFrame(s, res)

SpecStreams == InitStreams /\ [][NextStreams]_vars

\* C8 as stated: whatever the interleaving of the two streams, the label a
\* stream receives for a frame is the one it would receive processed alone,
\* and the buffer and lastGesture its frame meets are its own.
C8_StreamsIndependent ==
    (op = "processGestureDetection" /\ stream \in Streams)
        => /\ out = soloOut[stream]
           /\ handTracker.lastGesture = solo[stream].lastGesture

----------------------------------------------------------------------------
(* The modular pipeline: handDetector.js and gestures/ *)

\* handDetector.js: one record per detected hand
detectHands(res) ==
    [k \in 1..Len(res.multiHandLandmarks) |->
        [id |-> k - 1,
         landmarks  |-> res.multiHandLandmarks[k],
         handedness |-> res.multiHandedness[k].label]]

\* gestures/oneHand/fingers.js
getFingerStatesByName(landmarks) ==
    [thumb  |-> At(landmarks, 4).x  > At(landmarks, 2).x,
     index  |-> At(landmarks, 8).y  < At(landmarks, 6).y,
     middle |-> At(landmarks, 12).y < At(landmarks, 10).y,
     ring   |-> At(landmarks, 16).y < At(landmarks, 14).y,
     pinky  |-> At(landmarks, 20).y < At(landmarks, 18).y]

Fingers(t, i, m, r, p) ==
    [thumb |-> t, index |-> i, middle |-> m, ring |-> r, pinky |-> p]

\* gestures/oneHand/signs.js
\* a rule with a finger pattern (it has no match function)
PatternSign(n, f) == [name |-> n, fingers |-> f, match |-> "none"]

\* a rule with a match function (it has no fingers property: a for-in loop
\* over it runs no iteration)
PredicateSign(n, fn) == [name |-> n, fingers |-> << >>, match |-> fn]

ONE_HAND_SIGNS ==
    << PatternSign("FIVE",  Fingers(TRUE, TRUE, TRUE, TRUE, TRUE)),
       PatternSign("FIST",  Fingers(FALSE, FALSE, FALSE, FALSE, FALSE)),
       PatternSign("ONE",   Fingers(FALSE, TRUE, FALSE, FALSE, FALSE)),
       PatternSign("TWO",   Fingers(FALSE, TRUE, TRUE, FALSE, FALSE)),
       PatternSign("THREE", Fingers(FALSE, TRUE, TRUE, TRUE, FALSE)),
       PatternSign("FOUR",  Fingers(TRUE, TRUE, TRUE, TRUE, FALSE)) >>

\* a finger-pattern rule matches when every listed finger equals the state
PatternMatches(sign, fingerState) ==
    \A finger \in DOMAIN sign.fingers : sign.fingers[finger] = fingerState[finger]

\* gestures/twoHand: the name of the first matching sign, or null
RECURSIVE MatchFrom(_, _)
MatchFrom(signs, fingerState) ==
    IF signs = << >> THEN null
    ELSE IF PatternMatches(Head(signs), fingerState) THEN Head(signs).name
    ELSE MatchFrom(Tail(signs), fingerState)

matchOneHandSign(fingerState) == MatchFrom(ONE_HAND_SIGNS, fingerState)

\* (ip.y - tip.y) > 0.08 and (tip.y - ip.y) > 0.08
ThumbMargin == 8

\* the match function of THUMBS_UP
thumbsUpMatch(fingers, landmarks) ==
    /\ fingers.thumb = TRUE
    /\ fingers.index = FALSE
    /\ fingers.middle = FALSE
    /\ fingers.ring = FALSE
    /\ fingers.pinky = FALSE
    /\ (At(landmarks, 3).y - At(landmarks, 4).y) > ThumbMargin

\* faulty variant: THUMBS_DOWN without the direction test
thumbsDownAnyDirection(fingers, landmarks) ==
    /\ fingers.thumb = TRUE
    /\ fingers.index = FALSE
    /\ fingers.middle = FALSE
    /\ fingers.ring = FALSE
    /\ fingers.pinky = FALSE

\* the match function of THUMBS_DOWN
thumbsDownMatch(fingers, landmarks) ==
    /\ fingers.thumb = TRUE
    /\ fingers.index = FALSE
    /\ fingers.middle = FALSE
    /\ fingers.ring = FALSE
    /\ fingers.pinky = FALSE
    /\ (At(landmarks, 4).y - At(landmarks, 3).y) > ThumbMargin

\* sign.match({ fingers, landmarks })
CallMatch(sign, fingers, landmarks) ==
    CASE sign.match = "thumbsUp"   -> thumbsUpMatch(fingers, landmarks)
      [] sign.match = "thumbsDown" -> thumbsDownMatch(fingers, landmarks)

\* the ONE_HAND_SIGNS table with match functions (gestures/oneHand/index.js)
ONE_HAND_SIGNS_WITH_MATCH ==
    ONE_HAND_SIGNS
    \o << PredicateSign("THUMBS_UP", "thumbsUp"),
          PredicateSign("THUMBS_DOWN", "thumbsDown") >>

\* the tables of the repository that are exported as ONE_HAND_SIGNS
Registries == {ONE_HAND_SIGNS, ONE_HAND_SIGNS_WITH_MATCH}

\* one rule of detectOneHandGesture's loop: typeof sign.match === "function"
\* selects the match function, otherwise the finger pattern is compared
SignMatches(sign, currentState, landmarks) ==
    IF sign.match # "none"
    THEN CallMatch(sign, currentState, landmarks)
    ELSE PatternMatches(sign, currentState)

\* faulty variant: a rule's match function is never called
DetectFromPatternsOnly(signs, currentState, landmarks) ==
    IF MatchFrom(signs, currentState) = null THEN "Unknown"
    ELSE MatchFrom(signs, currentState)

\* detectOneHandGesture's loop over the table signs
RECURSIVE DetectFrom(_, _, _)
DetectFrom(signs, currentState, landmarks) ==
    IF signs = << >> THEN "Unknown"
    ELSE IF SignMatches(Head(signs), currentState, landmarks) THEN Head(signs).name
    ELSE DetectFrom(Tail(signs), currentState, landmarks)

\* gestures/oneHand detectOneHandGesture(landmarks) over a table
detectOneHandGesture(signs, landmarks) ==
    DetectFrom(signs, getFingerStatesByName(landmarks), landmarks)

\* what the two sign matchers of gestures/ return for one hand, over each
\* table exported as ONE_HAND_SIGNS
Classified(landmarks) ==
    [detected      |-> detectOneHandGesture(ONE_HAND_SIGNS_WITH_MATCH, landmarks),
     matched       |-> MatchFrom(ONE_HAND_SIGNS_WITH_MATCH, getFingerStatesByName(landmarks)),
     detectedPlain |-> detectOneHandGesture(ONE_HAND_SIGNS, landmarks),
     matchedPlain  |-> matchOneHandSign(getFingerStatesByName(landmarks))]

\* gestures/twoHand/signs.js: the ordered pair rules (left sign, right sign)
TWO_HAND_SIGNS ==
    << [name |-> "SORRY",     left |-> "OPEN_PALM",   right |-> "OPEN_PALM"],
       [name |-> "HELLO",     left |-> "OPEN_PALM",   right |-> "OPEN_PALM"],
       [name |-> "THANK_YOU", left |-> "FIST",        right |-> "FIST"],
       [name |-> "EXCELLENT", left |-> "THUMBS_UP",   right |-> "THUMBS_UP"],
       [name |-> "PLEASE",    left |-> "FIST",        right |-> "OPEN_PALM"],
       [name |-> "TOGETHER",  left |-> "POINTING_UP", right |-> "POINTING_UP"] >>

RECURSIVE PairFrom(_, _, _)
PairFrom(signs, leftSign, rightSign) ==
    IF signs = << >> THEN "Two hands detected"
    ELSE IF Head(signs).left = leftSign /\ Head(signs).right = rightSign
    THEN "Number: " \o Head(signs).name
    ELSE PairFrom(Tail(signs), leftSign, rightSign)

\* hands.find(h => h.handedness === label): the landmarks of the first hand
\* with that label, or NoHand
RECURSIVE FindHand(_, _)
FindHand(hands, label) ==
    IF hands = << >> THEN NoHand
    ELSE IF Head(hands).handedness = label THEN Head(hands).landmarks
    ELSE FindHand(Tail(hands), label)

\* the handedness label by which gestures/twoHand picks each of its hands
TwoHandLabelOf(role) == IF role = "leftHand" THEN "Left" ELSE "Right"

\* gestures/twoHand detectTwoHandGesture(hands): the hands it picked and the
\* value it returns
detectTwoHandGestureByLabel(hands) ==
    LET leftHand  == FindHand(hands, TwoHandLabelOf("leftHand"))
        rightHand == FindHand(hands, TwoHandLabelOf("rightHand"))
        leftSign  == matchOneHandSign(getFingerStatesByName(leftHand))
        rightSign == matchOneHandSign(getFingerStatesByName(rightHand))
    IN  [leftHand  |-> leftHand,
         rightHand |-> rightHand,
         gesture   |->
            IF ~IsHand(leftHand) \/ ~IsHand(rightHand) THEN "Two hands detected"
            ELSE IF ~Truthy(leftSign) \/ ~Truthy(rightSign) THEN "Two hands detected"
            ELSE PairFrom(TWO_HAND_SIGNS, leftSign, rightSign)]

----------------------------------------------------------------------------
(* One frame through both pipelines *)

\* thumb and index open: no rule of any table names it
ThumbIndexPose == Pose(10, 0, TRUE, FALSE, FALSE, FALSE)

\* thumb only, its tip exactly ThumbMargin above or below the IP joint
ThumbEdgeUpPose   == Pose(10, 0 - ThumbMargin, FALSE, FALSE, FALSE, FALSE)
ThumbEdgeDownPose == Pose(10, ThumbMargin, FALSE, FALSE, FALSE, FALSE)

\* thumb only, pointing down on the side where l[4].x > l[2].x
ThumbsDownOutPose == Pose(10, 10, FALSE, FALSE, FALSE, FALSE)

RolePoses ==
    {FistPose, OpenPalmPose, ThumbsUpPose, ThumbsDownPose, ThumbFlatPose,
     PointingPose, TwoPose, FourPose, ThumbIndexPose,
     ThumbEdgeUpPose, ThumbEdgeDownPose, ThumbsDownOutPose}

WristXs == {30, 40, 70}

RoleHands == { Hand1(pose, wx) : pose \in RolePoses, wx \in WristXs }

RoleFrames ==
    {NoResults}
    \cup { Results(<<h>>, <<l>>) : h \in RoleHands, l \in HandednessLabels }
    \cup { Results(<<h[1], h[2]>>, <<l[1], l[2]>>) :
              h \in RoleHands \X RoleHands, l \in HandednessLabels \X HandednessLabels }

InitRoles ==
    /\ handTracker = NewTracker
    /\ results \in RoleFrames
    /\ op = "init"
    /\ thrown = "none"
    /\ out = null
    /\ calls = 0
    /\ recent = << >>
    /\ outs = << >>
    /\ wasReset = FALSE
    /\ stream = 0
    /\ solo = NoStreams
    /\ soloOut = NoStreams
    /\ modular = NoModular
    /\ oneHand = << >>

\* the provider's frame goes through processGestureDetection
frameProcessed ==
    /\ handTracker.frameCount = 0
    /\ processGestureDetection(results)

\* the same frame goes through detectHands and gestures/twoHand
frameDetected ==
    /\ modular = NoModular
    /\ modular' = detectTwoHandGestureByLabel(detectHands(results))
    /\ UNCHANGED <<handTracker, results, op, thrown, out, calls, recent, outs,
                   wasReset, stream, solo, soloOut, oneHand>>

\* the provider's frame goes through the second definition of
\* processGestureDetection instead
frameProcessedSecond ==
    /\ handTracker.frameCount = 0
    /\ processGestureDetectionSecond(results)

\* each hand of the frame goes through the sign matchers of gestures/
frameClassified ==
    /\ oneHand = << >>
    /\ Len(results.multiHandLandmarks) > 0
    /\ oneHand' = [k \in 1..Len(results.multiHandLandmarks) |->
                      Classified(results.multiHandLandmarks[k])]
    /\ UNCHANGED <<handTracker, results, op, thrown, out, calls, recent, outs,
                   wasReset, stream, solo, soloOut, modular>>

NextRoles ==
    frameProcessed \/ frameProcessedSecond \/ frameDetected \/ frameClassified

SpecRoles == InitRoles /\ [][NextRoles]_vars

\* the frame has been through processGestureDetection
Assigned == op = "processGestureDetection"

\* the frame has been through gestures/twoHand
Detected == modular.gesture # null

HandAt(k) == results.multiHandLandmarks[k]

WristX(hand) == At(hand, 0).x

\* C9: of two hands with different wrist x, the one with the smaller wrist x
\* becomes leftHand and the other rightHand, whatever their order in the
\* frame and whatever their handedness labels.
C9_TwoHandsByWristX ==
    (Assigned /\ Len(results.multiHandLandmarks) = 2
       /\ WristX(HandAt(1)) # WristX(HandAt(2)))
        => /\ handTracker.leftHand \in {HandAt(1), HandAt(2)}
           /\ handTracker.rightHand \in {HandAt(1), HandAt(2)}
           /\ WristX(handTracker.leftHand) < WristX(handTracker.rightHand)
           /\ handTracker.leftHand # handTracker.rightHand

\* the second hand of the frame is the left one, against both labels
C9_Witness ==
    /\ Assigned /\ Len(results.multiHandLandmarks) = 2
    /\ WristX(HandAt(1)) = 70 /\ WristX(HandAt(2)) = 30
    /\ results.multiHandedness[1].label = "Left"
    /\ results.multiHandedness[2].label = "Right"
    /\ handTracker.leftHand = HandAt(2)
    /\ handTracker.rightHand = HandAt(1)

\* C10 as stated: a single detected hand fills exactly one slot of
\* assignHandRoles, and it is the slot gestures/twoHand gives a hand of that
\* handedness label.
C10_OneMappingConvention ==
    (Assigned /\ Detected /\ Len(results.multiHandLandmarks) = 1)
        => /\ IsHand(handTracker.leftHand) # IsHand(handTracker.rightHand)
           /\ handTracker.leftHand = modular.leftHand
           /\ handTracker.rightHand = modular.rightHand

----------------------------------------------------------------------------
(* Properties of the classifiers, checked under SpecRoles *)

\* the frame has been through either definition of processGestureDetection
Processed ==
    /\ op \in {"processGestureDetection", "processGestureDetectionSecond"}
    /\ thrown = "none"

\* the raw label the frame produced (the one entry of the window)
RawLabel == recent[1]

TwoHands == Len(results.multiHandLandmarks) = 2

LeftSign == detectSingleHandGesture(handTracker.leftHand)

RightSign == detectSingleHandGesture(handTracker.rightHand)

\* C11 as stated: in detectTwoHandGesture two open palms give SORRY when the
\* wrists are closer than 0.2 and HELLO otherwise, and a left fist with a
\* right open palm gives PLEASE.
C11_DistanceGatedFirst ==
    (Processed /\ TwoHands)
        => /\ (LeftSign = "OPEN_PALM" /\ RightSign = "OPEN_PALM")
                => RawLabel =
                     (IF HandsWithinSorryDistance(handTracker.leftHand,
                                                  handTracker.rightHand)
                      THEN "SORRY" ELSE "HELLO")
           /\ (LeftSign = "FIST" /\ RightSign = "OPEN_PALM") => RawLabel = "PLEASE"

\* C11 for the second definition of detectTwoHandGesture alone
C11_SecondDefinitionOrdered ==
    op = "processGestureDetectionSecond" => C11_DistanceGatedFirst

\* the sentinel of a two-hand frame that is present but not classified
Sentinel == "Two hands detected"

NumberLabels == { NumberLabel(k) : k \in 0..5 }

\* no named rule of detectSingleHandGesture matches the hand
UnresolvedSingle(hand) == detectSingleHandGesture(hand) \in NumberLabels

\* no rule of ONE_HAND_SIGNS matches the hand in matchOneHandSign
UnresolvedMatch(hand) == matchOneHandSign(getFingerStatesByName(hand)) = null

\* C12 as stated: with two hands of which one is unresolved, the two-hand
\* classifier returns the sentinel, in gestures/twoHand and in
\* gesture-detection.js.
C12_UnresolvedGivesSentinel ==
    TwoHands =>
        /\ (Detected /\ \E k \in 1..2 : UnresolvedMatch(HandAt(k)))
              => modular.gesture = Sentinel
        /\ (Processed /\ \E k \in 1..2 : UnresolvedSingle(HandAt(k)))
              => RawLabel = Sentinel

\* C12 for detectTwoHandGesture of gestures/twoHand alone
C12_GesturesTwoHandSentinel ==
    (TwoHands /\ Detected /\ \E k \in 1..2 : UnresolvedMatch(HandAt(k)))
        => modular.gesture = Sentinel

\* the indices of the rules of a table that match a hand
MatchingRules(signs, hand) ==
    { i \in 1..Len(signs) : SignMatches(signs[i], getFingerStatesByName(hand), hand) }

Least(S) == CHOOSE i \in S : \A j \in S : i <= j

\* the name of the earliest-declared matching rule, or "Unknown"
FirstMatch(signs, hand) ==
    IF MatchingRules(signs, hand) = {} THEN "Unknown"
    ELSE signs[Least(MatchingRules(signs, hand))].name

RuleNames(signs) == { signs[i].name : i \in 1..Len(signs) }

FrameClassified == oneHand # << >>

\* C13: detectOneHandGesture returns the name of the earliest-declared rule
\* that matches (a pattern rule by its fingers, a predicate rule by its match
\* function), and "Unknown", which is no rule's name, when none matches.
C13_FirstMatchWins ==
    FrameClassified =>
        /\ \A k \in 1..Len(oneHand) :
              /\ oneHand[k].detected = FirstMatch(ONE_HAND_SIGNS_WITH_MATCH, HandAt(k))
              /\ oneHand[k].detectedPlain = FirstMatch(ONE_HAND_SIGNS, HandAt(k))
        /\ \A signs \in Registries : "Unknown" \notin RuleNames(signs)

\* a predicate rule matched after an earlier predicate rule failed, and a
\* hand no rule matches
C13_Witness ==
    /\ FrameClassified /\ Len(oneHand) = 2
    /\ oneHand[1].detected = "THUMBS_DOWN"
    /\ oneHand[2].detected = "Unknown"

\* C15 as stated: over the ONE_HAND_SIGNS table with match functions,
\* matchOneHandSign returns the name detectOneHandGesture returns, and null
\* exactly when detectOneHandGesture returns "Unknown".
C15_SameClassification ==
    FrameClassified =>
        \A k \in 1..Len(oneHand) :
            oneHand[k].matched =
                (IF oneHand[k].detected = "Unknown" THEN null ELSE oneHand[k].detected)

\* C15 over the table of finger patterns only (gestures/oneHand/signs.js)
C15_SameOverPatternTable ==
    FrameClassified =>
        \A k \in 1..Len(oneHand) :
            oneHand[k].matchedPlain =
                (IF oneHand[k].detectedPlain = "Unknown" THEN null
                 ELSE oneHand[k].detectedPlain)

RECURSIVE Reverse(_)
Reverse(q) == IF q = << >> THEN << >> ELSE Reverse(Tail(q)) \o <<Head(q)>>

\* the fingers of the hand are thumb open, all others closed
ThumbOnly(hand) ==
    getFingerStatesByName(hand) = Fingers(TRUE, FALSE, FALSE, FALSE, FALSE)

\* the thumb tip is no more than ThumbMargin above or below the IP joint
WithinMargin(hand) == Abs(At(hand, 4).y - At(hand, 3).y) <= ThumbMargin

\* C17: at most one rule of a ONE_HAND_SIGNS table matches a hand; a
\* thumb-only hand within the margin matches neither THUMBS_UP nor
\* THUMBS_DOWN; and the label is the same with the rules in reverse order.
C17_RulesExclusive ==
    FrameClassified =>
        \A k \in 1..Len(oneHand) :
            /\ \A signs \in Registries :
                  Cardinality(MatchingRules(signs, HandAt(k))) <= 1
            /\ oneHand[k].detected =
                  detectOneHandGesture(Reverse(ONE_HAND_SIGNS_WITH_MATCH), HandAt(k))
            /\ oneHand[k].detectedPlain =
                  detectOneHandGesture(Reverse(ONE_HAND_SIGNS), HandAt(k))
            /\ (ThumbOnly(HandAt(k)) /\ WithinMargin(HandAt(k)))
                  => oneHand[k].detected = "Unknown"

\* a thumb clearly up beside a thumb-only hand exactly at the margin
C17_Witness ==
    /\ FrameClassified /\ Len(oneHand) = 2
    /\ oneHand[1].detected = "THUMBS_UP"
    /\ ThumbOnly(HandAt(2)) /\ At(HandAt(2), 3).y - At(HandAt(2), 4).y = ThumbMargin
    /\ oneHand[2].detected = "Unknown"

----------------------------------------------------------------------------
(* One pose held in front of the camera: the provider reports the same frame
   again and again, and the frame also goes through gestures/ *)

HeldFrames ==
    {NoResults}
    \cup { Results(<<Hand1(p, 30)>>, <<"Right">>) : p \in RolePoses }
    \cup { Results(<<Hand1(p, 30), Hand1(q, 70)>>, <<"Left", "Right">>) :
              p \in RolePoses, q \in RolePoses }

InitHeld ==
    /\ handTracker = NewTracker
    /\ results \in HeldFrames
    /\ op = "init"
    /\ thrown = "none"
    /\ out = null
    /\ calls = 0
    /\ recent = << >>
    /\ outs = << >>
    /\ wasReset = FALSE
    /\ stream = 0
    /\ solo = NoStreams
    /\ soloOut = NoStreams
    /\ modular = NoModular
    /\ oneHand = << >>

\* the held frame goes through processGestureDetection once more
frameHeld == processGestureDetection(results)

NextHeld == frameHeld \/ frameDetected \/ frameClassified

SpecHeld == InitHeld /\ [][NextHeld]_vars

\* the closed gesture taxonomy of the glossary
Taxonomy ==
    {"OPEN_PALM", "FIVE", "FIST", "ONE", "TWO", "THREE", "FOUR", "THUMBS_UP",
     "THUMBS_DOWN", "POINTING_UP", "HELLO", "THANK_YOU", "EXCELLENT", "PLEASE",
     "SORRY", "TOGETHER"}

\* the values the UI layer may be handed
Deliverable == {null} \cup Taxonomy \cup {Sentinel, "two hands detected", "Unknown"}

\* C14 as stated: the result of processGestureDetection, of
\* detectOneHandGesture and of gestures/twoHand detectTwoHandGesture is always
\* null, a taxonomy name, the two-hand sentinel or the single-hand sentinel.
C14_ClosedTaxonomy ==
    /\ out \in Deliverable
    /\ modular.gesture \in Deliverable
    /\ \A k \in 1..Len(oneHand) :
          /\ oneHand[k].detected \in Deliverable
          /\ oneHand[k].detectedPlain \in Deliverable

\* C14 for processGestureDetection alone
C14_ProcessedInTaxonomy == out \in Deliverable

\* C14 for gestures/oneHand alone
C14_OneHandInTaxonomy ==
    \A k \in 1..Len(oneHand) :
        /\ oneHand[k].detected \in Deliverable
        /\ oneHand[k].detectedPlain \in Deliverable

----------------------------------------------------------------------------
(* Bounded response of the stability filter, checked under Spec *)

\* C16: when the last STABILITY_FRAMES raw labels passed to
\* applyStabilityFilter are the same non-null label L, whatever came before,
\* the call for the last of them returned L and lastGesture is L.
C16_BoundedResponse ==
    \A L \in NamedLabels :
        (/\ op = "processGestureDetection"
         /\ thrown = "none"
         /\ recent = Repeat(L, STABILITY_FRAMES))
            => (out = L /\ handTracker.lastGesture = L)

\* five FIST frames arrive after at least three earlier frames of the same
\* session
C16_Witness ==
    /\ op = "processGestureDetection"
    /\ thrown = "none"
    /\ calls = STABILITY_FRAMES + 1
    /\ handTracker.frameCount > STABILITY_FRAMES + 2
    /\ recent = Repeat("FIST", STABILITY_FRAMES)
    /\ out = "FIST"
    /\ handTracker.lastGesture = "FIST"

====
